---- MODULE Spec2Model ----
(***************************************************************************)
(* md-data (MDDatabase): markdown headings and property lines -> a forest  *)
(* of records -> tables, keys and rows.  Model of src/ts/index.ts.         *)
(*                                                                         *)
(* Text is modelled as a sequence of one-character strings, so that        *)
(* lowercasing, escaping, marker tests and key synthesis operate on the    *)
(* characters as the code does.  Records live in an arena (recs) and are   *)
(* addressed by index; 0 stands for a falsy reference (false / undefined). *)
(***************************************************************************)
EXTENDS Integers, Sequences, FiniteSets, TLC

VARIABLES
    phase,      \* where the caller is: "parsing", "failed", "parsed", "md", "built", "ts", "sql", "threw"
    md,         \* the lines of the document that fromMD has consumed so far
    recs,       \* arena of Record objects created by fromMD
    feed,       \* fromMD's feed / MDDatabase.data: indices of the root records
    previous,   \* fromMD's cursor: index of the most recent record, 0 = false
    mdcache,    \* MDDatabase.md, the cached toMD text
    maps,       \* what buildMaps returned (flat, type_to_table, name_to_record)
    out,        \* what toSQL or toTS returned
    err,        \* the Error thrown, if any
    uuids,      \* how many identifiers randomUUID has generated
    values,     \* the value list of one column, as handed to getType
    format,     \* what getType returned for values
    replay      \* the document and the output of an earlier run that is being repeated

vars == <<phase, md, recs, feed, previous, mdcache, maps, out, err, uuids, values, format,
          replay>>

(***************************************************************************)
(* Bounds of the model.                                                    *)
(***************************************************************************)
FlatMaxLines == 4
FlatMaxDepth == 3

RefMaxLines == 5
RefMaxDepth == 1

TreeMaxLines == 5
TreeMaxDepth == 4
MergeMaxLines == 5
MergeMaxDepth == 3
SqlMaxLines == 4
SqlMaxDepth == 2
MaxUniqueDepth == 2
MaxValues == 3
KeyMaxLines == 3
KeyMaxDepth == 2
ParseMaxLines == 4
ParseMaxDepth == 2
RunMaxLines == 3
RunMaxDepth == 2

(***************************************************************************)
(* Strings.                                                                *)
(***************************************************************************)
None == <<>>

Digits == <<"0", "1", "2", "3", "4", "5", "6", "7", "8", "9">>

DigitChars == {Digits[i] : i \in 1..10}

DigitValue(c) == (CHOOSE i \in 1..10 : Digits[i] = c) - 1

RECURSIVE IntToString(_)
IntToString(n) ==
    IF n < 10 THEN <<Digits[n + 1]>>
    ELSE IntToString(n \div 10) \o <<Digits[(n % 10) + 1]>>

LowerChar(c) ==
    CASE c = "A" -> "a"
      [] c = "B" -> "b"
      [] c = "K" -> "k"
      [] c = "X" -> "x"
      [] OTHER -> c

UpperChar(c) ==
    CASE c = "a" -> "A"
      [] c = "b" -> "B"
      [] c = "c" -> "C"
      [] c = "j" -> "J"
      [] c = "k" -> "K"
      [] c = "t" -> "T"
      [] c = "u" -> "U"
      [] c = "x" -> "X"
      [] OTHER -> c

toLowerCase(s) == [i \in 1..Len(s) |-> LowerChar(s[i])]

ucwords(words) ==
    [i \in 1..Len(words) |->
        IF i = 1 \/ words[i - 1] = " " THEN UpperChar(words[i]) ELSE words[i]]

\* the characters the regular expression of escape() names (the double quote,
\* the backslash and the backquote, which no modelled text contains, are left out)
EscapedChars ==
    {" ", "!", "%", "^", "&", "*", "(", ")", "[", "{", "]", "}", ";", ":",
     "'", "@", "#", "~", "<", ">", ".", "?", "/", "|", "-", "+", "="}

escape(name) == [i \in 1..Len(name) |-> IF name[i] \in EscapedChars THEN "_" ELSE name[i]]

plural(word) == word \o <<"s">>

\* an identifier source that repeats itself after its second identifier
uuidText_Exhausted(n) == <<"u", "-">> \o IntToString(IF n > 2 THEN 2 ELSE n)

uuidText(n) == <<"u", "-">> \o IntToString(n)

(***************************************************************************)
(* namespace marker                                                        *)
(***************************************************************************)
markerTest(string) == Len(string) >= 3 /\ string[1] = "{" /\ string[Len(string)] = "}"

markerTestAny(strings) == \E i \in 1..Len(strings) : markerTest(strings[i])

markerStrip(string) ==
    IF markerTest(string) THEN SubSeq(string, 2, Len(string) - 1) ELSE string

markerStripAny(strings) ==
    IF markerTestAny(strings)
    THEN markerStrip(strings[CHOOSE i \in 1..Len(strings) :
            markerTest(strings[i]) /\ \A j \in 1..(i - 1) : ~markerTest(strings[j])])
    ELSE strings[1]

(***************************************************************************)
(* Property bags: ordered mappings, a sequence of <<name, value>> pairs in *)
(* insertion order (the key order of a JavaScript object).                 *)
(***************************************************************************)
HasProp(props, k) == \E i \in 1..Len(props) : props[i][1] = k

GetProp(props, k) == props[CHOOSE i \in 1..Len(props) : props[i][1] = k][2]

PutProp(props, k, v) ==
    IF HasProp(props, k)
    THEN [i \in 1..Len(props) |-> IF props[i][1] = k THEN <<k, v>> ELSE props[i]]
    ELSE Append(props, <<k, v>>)

DelProp(props, k) == SelectSeq(props, LAMBDA p : p[1] # k)

\* an assignment that never replaces a value the target already has
AssignProps_KeepTarget(target, source) ==
    target \o SelectSeq(source, LAMBDA p : ~HasProp(target, p[1]))

RECURSIVE AssignProps(_, _)
AssignProps(target, source) ==
    IF source = <<>> THEN target
    ELSE AssignProps(PutProp(target, Head(source)[1], Head(source)[2]), Tail(source))

PropKeys(props) == {props[i][1] : i \in 1..Len(props)}

(***************************************************************************)
(* Sequences of indices.                                                   *)
(***************************************************************************)
Range(s) == {s[i] : i \in 1..Len(s)}

RECURSIVE Concat(_)
Concat(ss) == IF ss = <<>> THEN <<>> ELSE Head(ss) \o Concat(Tail(ss))

(***************************************************************************)
(* flatten: preorder traversal of the forest.  FlattenOrder is the order   *)
(* of flat; FlattenParents is the arena after object.parent = objects has  *)
(* been assigned to every child visited.                                   *)
(***************************************************************************)
RECURSIVE FlattenOne_ChildrenFirst(_, _)
FlattenOne_ChildrenFirst(rs, i) ==
    Concat([k \in 1..Len(rs[i].children) |->
                FlattenOne_ChildrenFirst(rs, rs[i].children[k])]) \o <<i>>

RECURSIVE FlattenOne(_, _)
FlattenOne(rs, i) ==
    <<i>> \o Concat([k \in 1..Len(rs[i].children) |-> FlattenOne(rs, rs[i].children[k])])

FlattenOrder(rs, roots) == Concat([k \in 1..Len(roots) |-> FlattenOne(rs, roots[k])])

FlattenParents(rs, roots) ==
    LET flat == FlattenOrder(rs, roots)
        owners(i) == {p \in Range(flat) : i \in Range(rs[p].children)}
    IN  [i \in 1..Len(rs) |->
            IF i \in Range(flat) /\ owners(i) # {}
            THEN [rs[i] EXCEPT !.parent = CHOOSE p \in owners(i) : TRUE]
            ELSE rs[i]]

(***************************************************************************)
(* fromMD, one line of the document at a time.  A line is what the two     *)
(* regular expressions extract from it: a heading (depth, name, type; an   *)
(* empty type stands for a heading without "(type)") or a property line.   *)
(***************************************************************************)
HeadingLine(d, n, t) == [kind |-> "heading", depth |-> d, name |-> n, type |-> t]

PropertyLine(p, v) == [kind |-> "property", property |-> p, value |-> v]

\* current.parent after the depth comparison of lines 231-235
ResolveParent(rs, prev, depth) ==
    IF depth = rs[prev].depth THEN rs[prev].parent
    ELSE IF depth < rs[prev].depth /\ rs[prev].parent # 0 THEN rs[rs[prev].parent].parent
    ELSE prev

\* a search that looks at the most recent child only
FindChild_LastOnly(rs, p, n) ==
    LET ch == rs[p].children
    IN  IF ch # <<>> /\ rs[ch[Len(ch)]].name = n THEN ch[Len(ch)] ELSE 0

\* the first child of parent p whose name is n, 0 when there is none
FindChild(rs, p, n) ==
    LET ch == rs[p].children
        hits == {k \in 1..Len(ch) : rs[ch[k]].name = n}
    IN  IF hits = {} THEN 0 ELSE ch[CHOOSE k \in hits : \A j \in hits : k <= j]

NewRecord(line, prev) ==
    [depth |-> line.depth,
     name |-> toLowerCase(line.name),
     type |-> toLowerCase(line.type),
     children |-> <<>>,
     properties |-> <<>>,
     parent |-> prev]

FromMDHeading(line) ==
    LET current == NewRecord(line, previous)
        idx == Len(recs) + 1
    IN  IF line.type = None
        THEN /\ phase' = "failed"
             /\ err' = [kind |-> "parse", name |-> line.name]
             /\ UNCHANGED <<recs, feed, previous>>
        ELSE IF current.depth = 1
        THEN /\ feed' = Append(feed, idx)
             /\ recs' = Append(recs, current)
             /\ previous' = idx
             /\ UNCHANGED <<phase, err>>
        ELSE IF previous # 0
        THEN LET parent == ResolveParent(recs, previous, current.depth)
                 child == IF parent = 0 THEN 0 ELSE FindChild(recs, parent, current.name)
             IN  /\ IF parent = 0
                    THEN /\ recs' = Append(recs, [current EXCEPT !.parent = 0])
                         /\ previous' = idx
                    ELSE IF child # 0
                    THEN /\ recs' = recs
                         /\ previous' = child
                    ELSE /\ recs' = Append(
                                [recs EXCEPT ![parent].children = Append(@, idx)],
                                [current EXCEPT !.parent = parent])
                         /\ previous' = idx
                 /\ UNCHANGED <<phase, err, feed>>
        ELSE /\ recs' = Append(recs, current)
             /\ previous' = idx
             /\ UNCHANGED <<phase, err, feed>>

FromMDProperty(line) ==
    LET value == IF markerTest(line.value) THEN toLowerCase(line.value) ELSE line.value
    IN  /\ recs' = IF previous # 0
                   THEN [recs EXCEPT ![previous].properties =
                            PutProp(@, toLowerCase(line.property), value)]
                   ELSE recs
        /\ UNCHANGED <<phase, err, feed, previous>>

\* a reader that steps over a heading without a type as over any other text
FromMDLine_UntypedSkipped(line, maxLines) ==
    /\ phase = "parsing"
    /\ Len(md) < maxLines
    /\ md' = Append(md, line)
    /\ IF line.kind = "heading" /\ line.type # None THEN FromMDHeading(line)
       ELSE IF line.kind = "heading" THEN UNCHANGED <<phase, err, recs, feed, previous>>
       ELSE FromMDProperty(line)
    /\ UNCHANGED <<mdcache, maps, out, uuids, values, format, replay>>

FromMDLine(line, maxLines) ==
    /\ phase = "parsing"
    /\ Len(md) < maxLines
    /\ md' = Append(md, line)
    /\ IF line.kind = "heading" THEN FromMDHeading(line) ELSE FromMDProperty(line)
    /\ UNCHANGED <<mdcache, maps, out, uuids, values, format, replay>>

\* removeKeys(object, ["parent"]) on every root, then new MDDatabase(feed)
RemoveParent(rs, roots) ==
    LET reach == Range(FlattenOrder(rs, roots))
    IN  [i \in 1..Len(rs) |-> IF i \in reach THEN [rs[i] EXCEPT !.parent = 0] ELSE rs[i]]

FromMDReturn ==
    /\ phase = "parsing"
    /\ phase' = "parsed"
    /\ recs' = RemoveParent(recs, feed)
    /\ UNCHANGED <<md, feed, previous, mdcache, maps, out, err, uuids, values, format, replay>>

(***************************************************************************)
(* toMD / mdFlatten: the text as a sequence of lines.                      *)
(***************************************************************************)
MdProperty(p) ==
    [kind |-> "property",
     property |-> ucwords(p[1]),
     value |-> IF markerTest(p[2])
               THEN <<"{">> \o ucwords(markerStrip(p[2])) \o <<"}">>
               ELSE p[2]]

RECURSIVE mdFlatten(_, _)
mdFlatten(rs, i) ==
    <<[kind |-> "heading", depth |-> rs[i].depth, name |-> ucwords(rs[i].name),
       type |-> rs[i].type]>>
    \o [k \in 1..Len(rs[i].properties) |-> MdProperty(rs[i].properties[k])]
    \o Concat([k \in 1..Len(rs[i].children) |-> mdFlatten(rs, rs[i].children[k])])

ToMD ==
    /\ phase = "parsed"
    /\ phase' = "md"
    /\ mdcache' = IF mdcache.set THEN mdcache
                  ELSE [set |-> TRUE,
                        lines |-> Concat([k \in 1..Len(feed) |-> mdFlatten(recs, feed[k])])]
    /\ UNCHANGED <<md, recs, feed, previous, maps, out, err, uuids, values, format, replay>>

(***************************************************************************)
(* Numbers in text: parseInt, parseFloat and isNumber on strings made of   *)
(* decimal digits, "." and other characters (no sign, exponent or radix    *)
(* prefix occurs in the modelled values).  A number is its integer part    *)
(* and its fraction digits without trailing zeros; nan marks NaN.          *)
(***************************************************************************)
NaN == [nan |-> TRUE, int |-> 0, frac |-> <<>>]

RECURSIVE DigitsValue(_)
DigitsValue(ds) ==
    IF ds = <<>> THEN 0
    ELSE 10 * DigitsValue(SubSeq(ds, 1, Len(ds) - 1)) + DigitValue(ds[Len(ds)])

\* the length of the longest prefix of s, from position from on, made of digits
DigitRun(s, from) ==
    LET stops == {i \in from..Len(s) : s[i] \notin DigitChars}
    IN  IF stops = {} THEN Len(s) - from + 1
        ELSE (CHOOSE i \in stops : \A j \in stops : i <= j) - from

RECURSIVE StripZeros(_)
StripZeros(ds) ==
    IF ds # <<>> /\ ds[Len(ds)] = "0" THEN StripZeros(SubSeq(ds, 1, Len(ds) - 1)) ELSE ds

parseInt(s) ==
    LET n == DigitRun(s, 1)
    IN  IF n = 0 THEN NaN
        ELSE [nan |-> FALSE, int |-> DigitsValue(SubSeq(s, 1, n)), frac |-> <<>>]

parseFloat(s) ==
    LET n == DigitRun(s, 1)
        dot == Len(s) > n /\ s[n + 1] = "."
        m == IF dot THEN DigitRun(s, n + 2) ELSE 0
    IN  IF n = 0 /\ m = 0 THEN NaN
        ELSE [nan |-> FALSE,
              int |-> DigitsValue(SubSeq(s, 1, n)),
              frac |-> StripZeros(SubSeq(s, n + 2, n + 1 + m))]

\* the is-number package on a string: the whole string is a finite number
isNumber(s) ==
    /\ s # <<>>
    /\ \A i \in 1..Len(s) : s[i] \in DigitChars \cup {"."}
    /\ Cardinality({i \in 1..Len(s) : s[i] = "."}) <= 1
    /\ \E i \in 1..Len(s) : s[i] \in DigitChars

\* JavaScript ===  on numbers: NaN equals nothing
NumEq(x, y) == ~x.nan /\ ~y.nan /\ x.int = y.int /\ x.frac = y.frac

isInteger(value) == NumEq(parseFloat(value), parseInt(value))

isBoolean(value) == ~parseInt(value).nan /\ parseInt(value).int \in {0, 1}

TypeText == [sql |-> "TEXT", js |-> "string"]
TypeBoolean == [sql |-> "INTEGER", js |-> "boolean"]
TypeInteger == [sql |-> "INTEGER", js |-> "number"]
TypeReal == [sql |-> "REAL", js |-> "number"]

\* a getType that tests only the first value for being an integer
getType_FirstOnly(vals) ==
    IF \A i \in 1..Len(vals) : isNumber(vals[i])
    THEN IF Len(vals) > 1 /\ \A i \in 1..Len(vals) : isBoolean(vals[i]) THEN TypeBoolean
         ELSE IF isInteger(vals[1]) THEN TypeInteger
         ELSE TypeReal
    ELSE TypeText

getType(vals) ==
    IF \A i \in 1..Len(vals) : isNumber(vals[i])
    THEN IF Len(vals) > 1 /\ \A i \in 1..Len(vals) : isBoolean(vals[i]) THEN TypeBoolean
         ELSE IF \A i \in 1..Len(vals) : isInteger(vals[i]) THEN TypeInteger
         ELSE TypeReal
    ELSE TypeText

(***************************************************************************)
(* buildMaps.  type_to_table and name_to_record are sequences in insertion *)
(* order (the key order of the JavaScript objects).                        *)
(***************************************************************************)
UuidKey == <<"u", "u", "i", "d">>
ParentKey == <<"_", "p", "a", "r", "e", "n", "t">>
UuidSuffix == <<"_", "u", "u", "i", "d">>

Find(seq, key) ==
    IF \E i \in 1..Len(seq) : seq[i].key = key
    THEN CHOOSE i \in 1..Len(seq) : seq[i].key = key
    ELSE 0

NewTable(type_escape) ==
    [key |-> type_escape,
     raw |-> <<>>,
     insert |-> <<>>,
     parent |-> 0,
     columns |-> <<[field |-> type_escape \o UuidSuffix, property |-> UuidKey,
                    type |-> TypeText, required |-> TRUE]>>,
     keys |-> <<>>]

\* raw[property].push(value) for every property of the object
RECURSIVE RawPush(_, _)
RawPush(raw, props) ==
    IF props = <<>> THEN raw
    ELSE LET p == Head(props)
             at == Find(raw, p[1])
         IN  RawPush(IF at = 0 THEN Append(raw, [key |-> p[1], vals |-> <<p[2]>>])
                     ELSE [raw EXCEPT ![at].vals = Append(@, p[2])],
                     Tail(props))

\* an identity key that never appends the positional index
UniqueKey_NameOnly(object, object_i, unique_depth) == object.name

UniqueKey(object, object_i, unique_depth) ==
    object.name \o (IF object.depth <= unique_depth
                    THEN <<"_">> \o IntToString(object_i) ELSE <<>>)

\* the body of flat.forEach (lines 291-341) for the object at position pos
CollateObject(acc, flat, pos, unique_depth) ==
    LET i == flat[pos]
        object == acc.rs[i]
        type_escape == escape(object.type)
        t1 == IF Find(acc.tables, type_escape) = 0
              THEN Append(acc.tables, NewTable(type_escape)) ELSE acc.tables
        ti == Find(t1, type_escape)
        t2 == [t1 EXCEPT ![ti].insert = Append(@, i),
                         ![ti].parent = IF @ # 0 THEN @ ELSE object.parent,
                         ![ti].raw = RawPush(@, object.properties)]
        unique == UniqueKey(object, pos - 1, unique_depth)
        fresh == Find(acc.n2r, unique) = 0
        r1 == IF fresh THEN Append(acc.n2r, [key |-> unique, records |-> <<>>]) ELSE acc.n2r
        p1 == IF fresh
              THEN Append(acc.n2p, [key |-> unique,
                                    props |-> <<<<UuidKey, uuidText(acc.uuids + 1)>>>>])
              ELSE acc.n2p
        ni == Find(r1, unique)
        merged == AssignProps(p1[ni].props, object.properties)
    IN  [rs |-> [acc.rs EXCEPT ![i].properties = merged],
         tables |-> t2,
         n2r |-> [r1 EXCEPT ![ni].records = Append(@, i)],
         n2p |-> [p1 EXCEPT ![ni].props = merged],
         uuids |-> IF fresh THEN acc.uuids + 1 ELSE acc.uuids]

RECURSIVE CollateAll(_, _, _, _)
CollateAll(acc, flat, pos, unique_depth) ==
    IF pos > Len(flat) THEN acc
    ELSE CollateAll(CollateObject(acc, flat, pos, unique_depth), flat, pos + 1, unique_depth)

PrimaryKey(columns) ==
    [kind |-> "PRIMARY KEY", columns |-> columns, table |-> None, references |-> None]

ForeignKey(column, type) ==
    [kind |-> "FOREIGN KEY", columns |-> <<column>>,
     table |-> plural(escape(type)), references |-> escape(type) \o UuidSuffix]

\* columns.unshift and keys.push of a reference column (lines 364-377)
ReferenceColumn(tb, field, property, reftype) ==
    [tb EXCEPT
        !.columns = <<[field |-> field, property |-> property,
                       type |-> TypeText, required |-> FALSE]>> \o @,
        !.keys = Append(@, ForeignKey(field, reftype))]

\* columns.push of a plain typed column (lines 379-386)
PlainColumn(tb, property, vals) ==
    [tb EXCEPT !.columns = Append(@,
        [field |-> tb.key \o <<"_">> \o escape(property), property |-> property,
         type |-> getType(vals), required |-> FALSE])]

\* the body of Object.keys(raw).forEach (lines 357-388) for one property;
\* at is the place of the stripped marker in name_to_record, 0 when absent
AddColumn(tb, property, vals, rs, n2r, at) ==
    IF ~markerTestAny(vals)
    THEN [table |-> PlainColumn(tb, property, vals), error |-> None]
    ELSE IF at = 0
    THEN [table |-> tb,
          error |-> [kind |-> "reference", name |-> ucwords(markerStripAny(vals))]]
    ELSE [table |-> ReferenceColumn(tb,
                        escape(tb.key \o <<"_">> \o property \o <<"_">>
                               \o rs[n2r[at].records[1]].type \o UuidSuffix),
                        property, rs[n2r[at].records[1]].type),
          error |-> None]

RECURSIVE PropertyColumns(_, _, _, _, _)
PropertyColumns(res, raw, k, rs, n2r) ==
    IF k > Len(raw) THEN res
    ELSE IF res.error # None THEN res
    ELSE PropertyColumns(
            AddColumn(res.table, raw[k].key, raw[k].vals, rs, n2r,
                      Find(n2r, markerStripAny(raw[k].vals))),
            raw, k + 1, rs, n2r)

\* a link that copies the identifier of the parent the table remembers (the
\* first parent met among its records) into every record that has a parent
LinkParents_FirstParent(rs, insert) ==
    LET first == CHOOSE k \in 1..Len(insert) :
                    /\ rs[insert[k]].parent # 0
                    /\ \A j \in 1..(k - 1) : rs[insert[j]].parent = 0
    IN  [i \in 1..Len(rs) |->
            IF i \in Range(insert) /\ rs[i].parent # 0
            THEN [rs[i] EXCEPT !.properties =
                    PutProp(@, ParentKey,
                            GetProp(rs[rs[insert[first]].parent].properties, UuidKey))]
            ELSE rs[i]]

\* object.properties._parent = object.parent.properties.uuid (lines 393-397)
LinkParents(rs, insert) ==
    [i \in 1..Len(rs) |->
        IF i \in Range(insert) /\ rs[i].parent # 0
        THEN [rs[i] EXCEPT !.properties =
                PutProp(@, ParentKey, GetProp(rs[rs[i].parent].properties, UuidKey))]
        ELSE rs[i]]

\* keys.push of the PRIMARY KEY clause (lines 347-352)
TablePrimaryKey(type, parent, rs) ==
    IF parent # 0
    THEN PrimaryKey(<<type \o <<"_">> \o rs[parent].type \o UuidSuffix, type \o UuidSuffix>>)
    ELSE PrimaryKey(<<type \o UuidSuffix>>)

\* columns.unshift and keys.splice(1, 0, ...) of the parent link (lines 399-414)
ParentColumn(tb, field, parent_type) ==
    [tb EXCEPT
        !.columns = <<[field |-> field, property |-> ParentKey,
                       type |-> TypeText, required |-> TRUE]>> \o @,
        !.keys = <<Head(@)>> \o <<ForeignKey(field, parent_type)>> \o Tail(@)]

\* the end of the body for one type (lines 390-415), given its property columns
FinishTable(acc, ti, res, parent) ==
    IF res.error # None
    THEN [acc EXCEPT !.tables[ti] = res.table, !.error = res.error]
    ELSE IF parent # 0
    THEN [acc EXCEPT
            !.tables[ti] = ParentColumn(res.table,
                                res.table.key \o <<"_">> \o escape(acc.rs[parent].type)
                                \o UuidSuffix,
                                acc.rs[parent].type),
            !.rs = LinkParents(acc.rs, res.table.insert)]
    ELSE [acc EXCEPT !.tables[ti] = res.table]

\* the body of Object.keys(type_to_table).forEach (lines 346-416) for one type
SynthesizeTable(acc, ti) ==
    FinishTable(acc, ti,
        PropertyColumns(
            [table |-> [acc.tables[ti] EXCEPT !.keys = Append(@,
                            TablePrimaryKey(acc.tables[ti].key, acc.tables[ti].parent, acc.rs))],
             error |-> None],
            acc.tables[ti].raw, 1, acc.rs, acc.n2r),
        acc.tables[ti].parent)

RECURSIVE SynthesizeAll(_, _)
SynthesizeAll(acc, ti) ==
    IF ti > Len(acc.tables) THEN acc
    ELSE IF acc.error # None THEN acc
    ELSE SynthesizeAll(SynthesizeTable(acc, ti), ti + 1)

\* buildMaps(unique_depth) up to its return or throw: flat is flatten(this.data),
\* rs1 the arena with the parents flatten assigned, c what the loop over flat
\* leaves, s what the loop over the types leaves
BuildMapsResult(flat, c, s) ==
    [rs |-> s.rs, flat |-> flat, type_to_table |-> s.tables,
     name_to_record |-> s.n2r, uuids |-> c.uuids, error |-> s.error]

CollateStart(rs1, count) ==
    [rs |-> rs1, tables |-> <<>>, n2r |-> <<>>, n2p |-> <<>>, uuids |-> count]

SynthesizeStart(c) ==
    [rs |-> c.rs, tables |-> c.tables, n2r |-> c.n2r, error |-> None]

BuildMapsReturn(b, unique_depth) ==
    /\ recs' = b.rs
    /\ uuids' = b.uuids
    /\ IF b.error # None
       THEN /\ phase' = "threw"
            /\ err' = b.error
            /\ maps' = maps
       ELSE /\ phase' = "built"
            /\ err' = err
            /\ maps' = [unique_depth |-> unique_depth, flat |-> b.flat,
                        type_to_table |-> b.type_to_table,
                        name_to_record |-> b.name_to_record]
    /\ UNCHANGED <<md, feed, previous, mdcache, out, values, format, replay>>

BuildMaps(unique_depth) ==
    /\ phase = "parsed"
    /\ \E flat \in {FlattenOrder(recs, feed)} :
       \E rs1 \in {FlattenParents(recs, feed)} :
       \E c \in {CollateAll(CollateStart(rs1, uuids), flat, 1, unique_depth)} :
       \E s \in {SynthesizeAll(SynthesizeStart(c), 1)} :
            BuildMapsReturn(BuildMapsResult(flat, c, s), unique_depth)

(***************************************************************************)
(* toSQL: the CREATE TABLE and INSERT statements as structure.             *)
(***************************************************************************)
Null == [kind |-> "NULL", text |-> None]

\* a cell that prints a reference marker as the text it is
Cell_Unresolved(rs, n2r, record, column) ==
    IF HasProp(rs[record].properties, column.property)
    THEN LET value == GetProp(rs[record].properties, column.property)
         IN  IF isNumber(value) THEN [kind |-> "number", text |-> value]
             ELSE [kind |-> "string", text |-> value]
    ELSE Null

\* the value of one column of one row (lines 506-525)
Cell(rs, n2r, record, column) ==
    IF HasProp(rs[record].properties, column.property)
    THEN LET value == GetProp(rs[record].properties, column.property)
         IN  IF markerTest(value)
             THEN LET at == Find(n2r, markerStrip(value))
                  IN  IF at = 0
                      THEN [kind |-> "throw", text |-> ucwords(markerStrip(value))]
                      ELSE [kind |-> "string",
                            text |-> GetProp(rs[n2r[at].records[1]].properties, UuidKey)]
             ELSE IF isNumber(value) THEN [kind |-> "number", text |-> value]
             ELSE [kind |-> "string", text |-> value]
    ELSE Null

\* rows for the first record of each identity only
Rows_FirstOfIdentity(rs, n2r, tb) ==
    LET firsts == SelectSeq(tb.insert,
                    LAMBDA i : \E k \in 1..Len(n2r) : n2r[k].records[1] = i)
    IN  [r \in 1..Len(firsts) |->
            [c \in 1..Len(tb.columns) |-> Cell(rs, n2r, firsts[r], tb.columns[c])]]

Rows(rs, n2r, tb) ==
    [r \in 1..Len(tb.insert) |->
        [c \in 1..Len(tb.columns) |-> Cell(rs, n2r, tb.insert[r], tb.columns[c])]]

Statements(rs, n2r, tables) ==
    [t \in 1..Len(tables) |->
        [type |-> tables[t].key,
         table |-> plural(tables[t].key),
         columns |-> [c \in 1..Len(tables[t].columns) |->
                        [field |-> tables[t].columns[c].field,
                         type |-> tables[t].columns[c].type.sql]],
         keys |-> tables[t].keys,
         rows |-> Rows(rs, n2r, tables[t])]]

\* the reference errors thrown while the rows are rendered, in rendering order
Thrown(sql) ==
    Concat([t \in 1..Len(sql) |->
        Concat([r \in 1..Len(sql[t].rows) |->
            SelectSeq(sql[t].rows[r], LAMBDA cell : cell.kind = "throw")])])

\* a cleaning that leaves the parent link property in place
cleanFlat_KeepLink(rs, flat) ==
    [i \in 1..Len(rs) |->
        IF i \in Range(flat)
        THEN [rs[i] EXCEPT !.parent = 0, !.properties = DelProp(@, UuidKey)]
        ELSE rs[i]]

cleanFlat(rs, flat) ==
    [i \in 1..Len(rs) |->
        IF i \in Range(flat)
        THEN [rs[i] EXCEPT !.parent = 0,
                           !.properties = DelProp(DelProp(@, UuidKey), ParentKey)]
        ELSE rs[i]]

\* toSQL after buildMaps returned b: sql is the text, thrown the reference
\* errors met while rendering the rows
ToSQLReturn(b, sql, thrown, unique_depth) ==
    /\ uuids' = b.uuids
    /\ IF thrown # <<>>
       THEN /\ phase' = "threw"
            /\ err' = [kind |-> "reference", name |-> thrown[1].text]
            /\ recs' = b.rs
            /\ out' = out
       ELSE /\ phase' = "sql"
            /\ err' = err
            /\ recs' = cleanFlat(b.rs, b.flat)
            /\ out' = [unique_depth |-> unique_depth, sql |-> sql]
    /\ maps' = [unique_depth |-> unique_depth, flat |-> b.flat,
                type_to_table |-> b.type_to_table,
                name_to_record |-> b.name_to_record]
    /\ UNCHANGED <<md, feed, previous, mdcache, values, format, replay>>

\* toSQL when buildMaps threw: the error propagates
ToSQLThrow(b) ==
    /\ uuids' = b.uuids
    /\ phase' = "threw"
    /\ err' = b.error
    /\ recs' = b.rs
    /\ UNCHANGED <<md, feed, previous, mdcache, maps, out, values, format, replay>>

ToSQL(unique_depth) ==
    /\ phase = "parsed"
    /\ \E flat \in {FlattenOrder(recs, feed)} :
       \E rs1 \in {FlattenParents(recs, feed)} :
       \E c \in {CollateAll(CollateStart(rs1, uuids), flat, 1, unique_depth)} :
       \E s \in {SynthesizeAll(SynthesizeStart(c), 1)} :
       \E b \in {BuildMapsResult(flat, c, s)} :
            IF b.error # None THEN ToSQLThrow(b)
            ELSE \E sql \in {Statements(b.rs, b.name_to_record, b.type_to_table)} :
                 \E thrown \in {Thrown(sql)} :
                    ToSQLReturn(b, sql, thrown, unique_depth)

(***************************************************************************)
(* toTS: one namespace per type with the fields of its interface.          *)
(***************************************************************************)
\* ucwords(type.split("_").join(" ")).split(" ").join("")
NamespaceName(type) ==
    SelectSeq(ucwords([k \in 1..Len(type) |-> IF type[k] = "_" THEN " " ELSE type[k]]),
              LAMBDA c : c # " ")

Declarations(tables) ==
    [t \in 1..Len(tables) |->
        [namespace |-> NamespaceName(tables[t].key),
         fields |-> [c \in 1..Len(tables[t].columns) |->
                        [name |-> tables[t].columns[c].field
                                  \o (IF tables[t].columns[c].required THEN <<>> ELSE <<"?">>),
                         type |-> tables[t].columns[c].type.js]]]]

\* toTS after buildMaps() returned b
ToTSReturn(b) ==
    /\ uuids' = b.uuids
    /\ phase' = "ts"
    /\ recs' = cleanFlat(b.rs, b.flat)
    /\ out' = [unique_depth |-> 0, ts |-> Declarations(b.type_to_table)]
    /\ maps' = [unique_depth |-> 0, flat |-> b.flat,
                type_to_table |-> b.type_to_table,
                name_to_record |-> b.name_to_record]
    /\ UNCHANGED <<md, feed, previous, mdcache, err, values, format, replay>>

ToTS ==
    /\ phase = "parsed"
    /\ \E flat \in {FlattenOrder(recs, feed)} :
       \E rs1 \in {FlattenParents(recs, feed)} :
       \E c \in {CollateAll(CollateStart(rs1, uuids), flat, 1, 0)} :
       \E s \in {SynthesizeAll(SynthesizeStart(c), 1)} :
       \E b \in {BuildMapsResult(flat, c, s)} :
            IF b.error # None THEN ToSQLThrow(b) ELSE ToTSReturn(b)

(***************************************************************************)
(* Documents of the tree-building specification: headings only.            *)
(***************************************************************************)
Init ==
    /\ phase = "parsing"
    /\ md = <<>>
    /\ recs = <<>>
    /\ feed = <<>>
    /\ previous = 0
    /\ mdcache = [set |-> FALSE, lines |-> <<>>]
    /\ maps = None
    /\ out = None
    /\ err = None
    /\ uuids = 0
    /\ values = <<>>
    /\ format = None
    /\ replay = None

TreeLines ==
    {HeadingLine(d, n, <<"t">>) : d \in 1..TreeMaxDepth, n \in {<<"a">>, <<"B">>}}

TreeNext ==
    \/ \E line \in TreeLines : FromMDLine(line, TreeMaxLines)
    \/ FromMDReturn
    \/ ToMD

SpecTree == Init /\ [][TreeNext]_vars

(***************************************************************************)
(* Documents of the merging specification: headings and property lines.    *)
(***************************************************************************)
MergeLines ==
    {HeadingLine(d, n, <<"t">>) : d \in 1..MergeMaxDepth, n \in {<<"a">>, <<"X">>}}
    \cup {HeadingLine(2, <<"x">>, <<"u">>)}
    \cup {PropertyLine(<<"k">>, <<"1">>), PropertyLine(<<"k">>, <<"2">>),
          PropertyLine(<<"J">>, <<"1">>)}

MergeNext ==
    \/ \E line \in MergeLines : FromMDLine(line, MergeMaxLines)
    \/ FromMDReturn
    \/ ToMD

SpecMerge == Init /\ [][MergeNext]_vars

(***************************************************************************)
(* Documents of the schema specification, then buildMaps or toSQL.         *)
(***************************************************************************)
SqlLines ==
    {HeadingLine(d, <<"a">>, <<"t">>) : d \in 1..SqlMaxDepth}
    \cup {HeadingLine(d, <<"b">>, <<"u", " ", "v">>) : d \in 1..SqlMaxDepth}
    \cup {PropertyLine(<<"k">>, <<"1">>), PropertyLine(<<"k">>, <<"2">>),
          PropertyLine(<<"k">>, <<"{", "B", "}">>)}

SqlNext ==
    \/ \E line \in SqlLines : FromMDLine(line, SqlMaxLines)
    \/ FromMDReturn
    \/ \E d \in 0..MaxUniqueDepth : BuildMaps(d)
    \/ \E d \in 0..MaxUniqueDepth : ToSQL(d)
    \/ ToTS

SpecSql == Init /\ [][SqlNext]_vars

(***************************************************************************)
(* Documents whose names and markers look like synthesized identity keys.  *)
(***************************************************************************)
KeyLines ==
    {HeadingLine(d, <<"a">>, <<"t">>) : d \in 1..KeyMaxDepth}
    \cup {HeadingLine(d, <<"a", "_", "0">>, <<"t">>) : d \in 1..KeyMaxDepth}
    \cup {PropertyLine(<<"k">>, <<"{", "A", "_", "0", "}">>)}

KeyNext ==
    \/ \E line \in KeyLines : FromMDLine(line, KeyMaxLines)
    \/ FromMDReturn
    \/ \E d \in 0..MaxUniqueDepth : BuildMaps(d)
    \/ \E d \in 0..MaxUniqueDepth : ToSQL(d)

SpecKey == Init /\ [][KeyNext]_vars

(***************************************************************************)
(* Documents in which a heading may lack its parenthesized type.           *)
(***************************************************************************)
ParseLines ==
    {HeadingLine(d, <<"a">>, <<"t">>) : d \in 1..ParseMaxDepth}
    \cup {HeadingLine(d, <<"B">>, None) : d \in 1..ParseMaxDepth}
    \cup {PropertyLine(<<"k">>, <<"1">>)}

ParseNext ==
    \/ \E line \in ParseLines : FromMDLine(line, ParseMaxLines)
    \/ FromMDReturn

SpecParse == Init /\ [][ParseNext]_vars

(***************************************************************************)
(* Two independent runs on one document: after toSQL or toTS returned, the *)
(* caller starts over with a new fromMD on the same text and calls the     *)
(* same method with the same argument; randomUUID goes on generating new   *)
(* identifiers.                                                            *)
(***************************************************************************)
RunLines ==
    {HeadingLine(d, <<"a">>, <<"t">>) : d \in 1..RunMaxDepth}
    \cup {HeadingLine(d, <<"b">>, <<"u", " ", "v">>) : d \in 1..RunMaxDepth}
    \cup {PropertyLine(<<"k">>, <<"1">>), PropertyLine(<<"k">>, <<"{", "B", "}">>)}

\* the static call MDDatabase.fromMD(md) again: new lines, feed and previous
Rerun ==
    /\ phase \in {"sql", "ts"}
    /\ replay = None
    /\ replay' = [md |-> md, out |-> out]
    /\ phase' = "parsing"
    /\ md' = <<>>
    /\ recs' = <<>>
    /\ feed' = <<>>
    /\ previous' = 0
    /\ maps' = None
    /\ out' = None
    /\ UNCHANGED <<mdcache, err, uuids, values, format>>

\* the second run reads the text of the first
SameLine(line) ==
    replay # None => (Len(md) < Len(replay.md) /\ line = replay.md[Len(md) + 1])

SameText == replay # None => md = replay.md

SameCall(method, unique_depth) ==
    replay # None =>
        (method \in DOMAIN replay.out /\ replay.out.unique_depth = unique_depth)

RunNext ==
    \/ \E line \in RunLines : SameLine(line) /\ FromMDLine(line, RunMaxLines)
    \/ SameText /\ FromMDReturn
    \/ \E d \in 0..MaxUniqueDepth : SameCall("sql", d) /\ ToSQL(d)
    \/ SameCall("ts", 0) /\ ToTS
    \/ Rerun

SpecRuns == Init /\ [][RunNext]_vars

(***************************************************************************)
(* Documents three levels deep, parsed and then flattened by buildMaps.    *)
(***************************************************************************)
FlatLines ==
    {HeadingLine(d, n, <<"t">>) : d \in 1..FlatMaxDepth, n \in {<<"a">>, <<"b">>}}

FlatNext ==
    \/ \E line \in FlatLines : FromMDLine(line, FlatMaxLines)
    \/ FromMDReturn
    \/ BuildMaps(0)

SpecFlat == Init /\ [][FlatNext]_vars

(***************************************************************************)
(* Documents whose property k holds markers to two different names, one    *)
(* column collecting both.                                                 *)
(***************************************************************************)
RefLines ==
    {HeadingLine(d, <<"a">>, <<"t">>) : d \in 1..RefMaxDepth}
    \cup {HeadingLine(d, <<"b">>, <<"u", " ", "v">>) : d \in 1..RefMaxDepth}
    \cup {PropertyLine(<<"k">>, <<"{", "A", "}">>),
          PropertyLine(<<"k">>, <<"{", "B", "}">>)}

RefNext ==
    \/ \E line \in RefLines : FromMDLine(line, RefMaxLines)
    \/ FromMDReturn
    \/ \E d \in 0..MaxUniqueDepth : BuildMaps(d)
    \/ \E d \in 0..MaxUniqueDepth : ToSQL(d)
    \/ ToTS

SpecRefs == Init /\ [][RefNext]_vars

(***************************************************************************)

(* One instance used for two calls, as the test script does with toFile    *)
(* for test.sql and then test.ts: the records the first call left are the  *)
(* records the second call reads.                                          *)
(***************************************************************************)
CallAgain ==
    /\ phase \in {"sql", "ts"}
    /\ replay = None
    /\ replay' = [out |-> out, maps |-> maps]
    /\ phase' = "parsed"
    /\ maps' = None
    /\ out' = None
    /\ UNCHANGED <<md, recs, feed, previous, mdcache, err, uuids, values, format>>

\* the second call is made with the unique depth of the first
SameDepth(unique_depth) ==
    replay # None => replay.out.unique_depth = unique_depth

RepeatNext ==
    \/ \E line \in RunLines : FromMDLine(line, RunMaxLines)
    \/ FromMDReturn
    \/ \E d \in 0..MaxUniqueDepth : SameDepth(d) /\ ToSQL(d)
    \/ SameDepth(0) /\ ToTS
    \/ CallAgain

SpecRepeat == Init /\ [][RepeatNext]_vars

(***************************************************************************)

(* The values of one column: raw[property].push for each value observed,   *)
(* then getType on the list.                                               *)
(***************************************************************************)
TypeValues ==
    {<<"0">>, <<"1">>, <<"2">>, <<"1", "0">>, <<"1", ".", "5">>, <<"0", ".", "5">>,
     <<"2", ".", "5">>, <<"1", ".", "0">>, <<".", "0">>, <<"a">>, <<"1", "a">>}

PushValue(value) ==
    /\ format = None
    /\ Len(values) < MaxValues
    /\ values' = Append(values, value)
    /\ UNCHANGED <<phase, md, recs, feed, previous, mdcache, maps, out, err, uuids, format, replay>>

GetType ==
    /\ format = None
    /\ values # <<>>
    /\ format' = getType(values)
    /\ UNCHANGED <<phase, md, recs, feed, previous, mdcache, maps, out, err, uuids, values, replay>>

TypeNext ==
    \/ \E value \in TypeValues : PushValue(value)
    \/ GetType

SpecType == Init /\ [][TypeNext]_vars

(***************************************************************************)
(* Claims.                                                                 *)
(***************************************************************************)
Reachable(rs, roots) == Range(FlattenOrder(rs, roots))

HeadingsOf(lines) == {i \in 1..Len(lines) : lines[i].kind = "heading"}

\* C1: in the forest fromMD returns, every child record has a depth strictly
\* greater than the depth of its parent.
C1_ChildDeeperThanParent ==
    phase \in {"parsed", "md"} =>
        \A p \in Reachable(recs, feed) :
            \A k \in 1..Len(recs[p].children) :
                recs[recs[p].children[k]].depth > recs[p].depth

\* C2: when every heading carries a type, fromMD followed by toMD preserves the
\* node count: every heading of the document is printed under its (case-
\* normalized) name, and the text holds one heading per record that fromMD
\* created (a heading that merged into an earlier child created none).
C2_NodeCountPreserved ==
    phase = "md" =>
        /\ \A i \in HeadingsOf(md) :
                \E j \in HeadingsOf(mdcache.lines) :
                    toLowerCase(mdcache.lines[j].name) = toLowerCase(md[i].name)
        /\ Cardinality(HeadingsOf(mdcache.lines)) = Len(recs)

\* C3: a heading whose resolved parent already has a child of the same
\* normalized name creates no record: that child becomes the active node, the
\* parent keeps exactly one child of that name, and a property line then
\* writes into the active node, keeping its other properties and replacing
\* the value of a property it already has.
SameNamed(rs, parent, name) ==
    IF parent = 0 THEN {}
    ELSE {c \in Range(rs[parent].children) : rs[c].name = toLowerCase(name)}

C3_HeadingStep(line) ==
    LET parent == ResolveParent(recs, previous, line.depth)
    IN  SameNamed(recs, parent, line.name) # {} =>
            /\ Len(recs') = Len(recs)
            /\ feed' = feed
            /\ previous' \in SameNamed(recs, parent, line.name)
            /\ Cardinality(SameNamed(recs', parent, line.name)) = 1
            /\ \A i \in 1..Len(recs) : recs'[i].properties = recs[i].properties

C3_PropertyStep(line) ==
    LET key == toLowerCase(line.property)
        old == recs[previous].properties
        new == recs'[previous].properties
    IN  /\ previous' = previous
        /\ Len(recs') = Len(recs)
        /\ PropKeys(new) = PropKeys(old) \cup {key}
        /\ GetProp(new, key) = line.value
        /\ \A k \in PropKeys(old) \ {key} : GetProp(new, k) = GetProp(old, k)

C3_MergeIntoExistingChild ==
    [][\A line \in MergeLines :
        (md' = Append(md, line) /\ previous # 0) =>
            IF line.kind = "heading"
            THEN line.depth # 1 => C3_HeadingStep(line)
            ELSE C3_PropertyStep(line)]_vars

\* the second "x" heading merged into the first, whose properties are now the
\* union of both blocks with the later value of k
C3_Witness ==
    /\ Len(md) = 5
    /\ md[2] = HeadingLine(2, <<"X">>, <<"t">>)
    /\ md[3] = PropertyLine(<<"k">>, <<"1">>)
    /\ md[4] = HeadingLine(2, <<"x">>, <<"u">>)
    /\ md[5] = PropertyLine(<<"k">>, <<"2">>)
    /\ Len(recs) = 2
    /\ feed = <<1>>
    /\ recs[1].children = <<2>>
    /\ recs[2].properties = <<<<<<"k">>, <<"2">>>>>>

(***************************************************************************)
(* Reading what buildMaps returned and what toSQL printed.                 *)
(***************************************************************************)
\* the identity key under which name_to_record holds record i
IdentityOf(i) ==
    LET n2r == maps.name_to_record
    IN  n2r[CHOOSE k \in 1..Len(n2r) : i \in Range(n2r[k].records)].key

\* the identity key the documentation gives the record at flat position p
StatedKey(p, d) ==
    LET object == recs[maps.flat[p]]
    IN  IF object.depth <= d
        THEN object.name \o <<"_">> \o IntToString(p - 1)
        ELSE object.name

\* the record whose children hold record i, 0 for a root
ParentOf(i) ==
    IF \E p \in 1..Len(recs) : i \in Range(recs[p].children)
    THEN CHOOSE p \in 1..Len(recs) : i \in Range(recs[p].children)
    ELSE 0

TableOf(i) ==
    CHOOSE t \in 1..Len(maps.type_to_table) :
        maps.type_to_table[t].key = escape(recs[i].type)

RowOf(i) ==
    CHOOSE r \in 1..Len(maps.type_to_table[TableOf(i)].insert) :
        maps.type_to_table[TableOf(i)].insert[r] = i

ColumnOf(t, property) ==
    CHOOSE c \in 1..Len(maps.type_to_table[t].columns) :
        maps.type_to_table[t].columns[c].property = property

\* what toSQL printed for record i in the column of the given property
CellOf(i, property) ==
    out.sql[TableOf(i)].rows[RowOf(i)][ColumnOf(TableOf(i), property)]

\* C4: after buildMaps(d), two distinct records of the flattened sequence that
\* both have depth <= d have different identity keys and different generated
\* identifiers whatever their names, and two that both have depth > d and the
\* same normalized name have the same identity key and the same identifier.
C4_IdentityByDepth ==
    phase = "built" =>
        \A p, q \in 1..Len(maps.flat) :
            LET x == maps.flat[p]
                y == maps.flat[q]
                d == maps.unique_depth
            IN  p # q =>
                /\ (recs[x].depth <= d /\ recs[y].depth <= d) =>
                        /\ IdentityOf(x) # IdentityOf(y)
                        /\ GetProp(recs[x].properties, UuidKey)
                                # GetProp(recs[y].properties, UuidKey)
                /\ (recs[x].depth > d /\ recs[y].depth > d /\ recs[x].name = recs[y].name) =>
                        /\ IdentityOf(x) = IdentityOf(y)
                        /\ GetProp(recs[x].properties, UuidKey)
                                = GetProp(recs[y].properties, UuidKey)

\* with unique_depth 1 the two roots named "a" are kept apart and the two
\* "b" records of depth 2 under them are one identity
C4_Witness ==
    /\ phase = "built"
    /\ maps.unique_depth = 1
    /\ md = <<HeadingLine(1, <<"a">>, <<"t">>), HeadingLine(2, <<"b">>, <<"u", " ", "v">>),
              HeadingLine(1, <<"a">>, <<"t">>), HeadingLine(2, <<"b">>, <<"u", " ", "v">>)>>
    /\ maps.flat = <<1, 2, 3, 4>>
    /\ IdentityOf(1) = <<"a", "_", "0">>
    /\ IdentityOf(3) = <<"a", "_", "2">>
    /\ IdentityOf(2) = <<"b">>
    /\ IdentityOf(4) = <<"b">>
    /\ GetProp(recs[1].properties, UuidKey) # GetProp(recs[3].properties, UuidKey)
    /\ GetProp(recs[2].properties, UuidKey) = GetProp(recs[4].properties, UuidKey)

\* C5: for two depth-1 headings with the same name and type, toSQL with
\* unique_depth = 0 prints exactly one row for them, holding the union of
\* their fields with the later value winning; with unique_depth = 1 it prints
\* two rows with two distinct identifiers.
C5_MergedRootsOneRow ==
    phase = "sql" =>
        \A x, y \in Range(feed) :
            (x # y /\ recs[x].name = recs[y].name /\ recs[x].type = recs[y].type) =>
                LET t == TableOf(x)
                    theirs == {r \in 1..Len(out.sql[t].rows) :
                                maps.type_to_table[t].insert[r] \in {x, y}}
                IN  IF out.unique_depth = 0
                    THEN /\ Cardinality(theirs) = 1
                         /\ \A r \in theirs :
                                \A k \in PropKeys(recs[x].properties)
                                            \cup PropKeys(recs[y].properties) :
                                    out.sql[t].rows[r][ColumnOf(t, k)].text
                                        = GetProp(recs[IF x > y THEN x ELSE y].properties, k)
                    ELSE (recs[x].depth <= out.unique_depth) =>
                            /\ Cardinality(theirs) = 2
                            /\ CellOf(x, UuidKey) # CellOf(y, UuidKey)

\* C6: toSQL prints a property value {x} as the generated identifier of the
\* first record, in flattened order, whose identity key is x, wherever that
\* record stands in the document; when no record has the identity key x,
\* toSQL fails with a reference error and returns no SQL.
C6_ReferenceResolution ==
    /\ phase = "sql" =>
        \A i \in Range(maps.flat) :
            \A k \in PropKeys(recs[i].properties) :
                LET value == GetProp(recs[i].properties, k)
                    named == {p \in 1..Len(maps.flat) :
                                StatedKey(p, out.unique_depth) = markerStrip(value)}
                IN  markerTest(value) =>
                        /\ named # {}
                        /\ \A c \in 1..Len(maps.type_to_table[TableOf(i)].columns) :
                            maps.type_to_table[TableOf(i)].columns[c].property = k =>
                                out.sql[TableOf(i)].rows[RowOf(i)][c] =
                                    CellOf(maps.flat[CHOOSE p \in named :
                                                        \A q \in named : p <= q], UuidKey)
    /\ phase = "threw" => (err.kind = "reference" /\ out = None)

\* record "a" refers to {B} before the heading of "b" is read: its cell holds
\* the identifier printed in the row of "b"
C6_Witness ==
    /\ phase = "sql"
    /\ md = <<HeadingLine(1, <<"a">>, <<"t">>), PropertyLine(<<"k">>, <<"{", "B", "}">>),
              HeadingLine(1, <<"b">>, <<"u", " ", "v">>)>>
    /\ GetProp(recs[1].properties, <<"k">>) = <<"{", "b", "}">>
    /\ CellOf(1, <<"k">>) = [kind |-> "string", text |-> uuidText(2)]
    /\ CellOf(2, UuidKey) = [kind |-> "string", text |-> uuidText(2)]

\* C7: getType follows the stated decision procedure: TEXT if any value is not
\* fully numeric; otherwise boolean-like only if there is more than one value
\* and every value is exactly 0 or 1; otherwise INTEGER if every value has no
\* fractional component; otherwise REAL.
ExactlyZeroOrOne(value) ==
    /\ ~parseFloat(value).nan
    /\ parseFloat(value).frac = <<>>
    /\ parseFloat(value).int \in {0, 1}

NoFraction(value) == ~parseFloat(value).nan /\ parseFloat(value).frac = <<>>

StatedType(vals) ==
    IF \E i \in 1..Len(vals) : ~isNumber(vals[i]) THEN TypeText
    ELSE IF Len(vals) > 1 /\ \A i \in 1..Len(vals) : ExactlyZeroOrOne(vals[i])
    THEN TypeBoolean
    ELSE IF \A i \in 1..Len(vals) : NoFraction(vals[i]) THEN TypeInteger
    ELSE TypeReal

C7_StatedDecisionProcedure ==
    format # None => format = StatedType(values)

\* C8: getType returns the same type for every permutation of the list of
\* values observed for a column.
C8_OrderIndependent ==
    format # None =>
        \A f \in Permutations(1..Len(values)) :
            getType([i \in 1..Len(values) |-> values[f[i]]]) = format

\* an integer first and a fraction last: REAL in this and in every other order
C8_Witness ==
    /\ values = <<<<"2">>, <<"1", "0">>, <<"1", ".", "5">>>>
    /\ format = TypeReal

\* C9: the primary key buildMaps gives a type is the pair (parent-link column,
\* own uuid column) if and only if some record of that type in the flattened
\* sequence has a parent, and the own uuid column alone otherwise.
C9_CompositeKeyIffParent ==
    phase = "built" =>
        \A t \in 1..Len(maps.type_to_table) :
            LET tb == maps.type_to_table[t]
                own == tb.columns[ColumnOf(t, UuidKey)].field
            IN  tb.keys[1] =
                    IF \E i \in Range(maps.flat) :
                            escape(recs[i].type) = tb.key /\ ParentOf(i) # 0
                    THEN PrimaryKey(<<tb.columns[ColumnOf(t, ParentKey)].field, own>>)
                    ELSE PrimaryKey(<<own>>)

\* C10: for every record that has a parent, toSQL prints in the parent-link
\* column of its row the identifier it prints in the uuid column of the row of
\* that record's own parent, also when the record shares its identity with
\* records that have another parent or none.
C10_ParentLinkIsParentsUuid ==
    phase = "sql" =>
        \A i \in Range(maps.flat) :
            ParentOf(i) # 0 =>
                /\ CellOf(i, ParentKey).kind = "string"
                /\ CellOf(i, ParentKey) = CellOf(ParentOf(i), UuidKey)

\* three records share the identity "b": one under "a", one a root, one under
\* that root; each child's link is the identifier of its own parent
C10_Witness ==
    /\ phase = "sql"
    /\ out.unique_depth = 0
    /\ md = <<HeadingLine(1, <<"a">>, <<"t">>), HeadingLine(2, <<"b">>, <<"u", " ", "v">>),
              HeadingLine(1, <<"b">>, <<"u", " ", "v">>),
              HeadingLine(2, <<"b">>, <<"u", " ", "v">>)>>
    /\ maps.name_to_record[2].records = <<2, 3, 4>>
    /\ CellOf(2, ParentKey) = [kind |-> "string", text |-> uuidText(1)]
    /\ CellOf(3, ParentKey) = Null
    /\ CellOf(4, ParentKey) = [kind |-> "string", text |-> uuidText(2)]
    /\ CellOf(1, UuidKey) = [kind |-> "string", text |-> uuidText(1)]
    /\ CellOf(3, UuidKey) = [kind |-> "string", text |-> uuidText(2)]

\* C11: after toSQL or toTS returns, no record reachable from the data has a
\* parent back-reference, a uuid property or a _parent property.
C11_TransientFieldsStripped ==
    phase \in {"sql", "ts"} =>
        \A i \in Reachable(recs, feed) :
            /\ recs[i].parent = 0
            /\ ~HasProp(recs[i].properties, UuidKey)
            /\ ~HasProp(recs[i].properties, ParentKey)

\* toTS returned for a parent and its child: the child's table has the parent
\* link, and the child record has lost parent, uuid and _parent
C11_Witness ==
    /\ phase = "ts"
    /\ md = <<HeadingLine(1, <<"a">>, <<"t">>), HeadingLine(2, <<"b">>, <<"u", " ", "v">>),
              PropertyLine(<<"k">>, <<"1">>)>>
    /\ maps.type_to_table[2].columns[1].property = ParentKey
    /\ recs[1].children = <<2>>
    /\ recs[2].parent = 0
    /\ recs[2].properties = <<<<<<"k">>, <<"1">>>>>>

\* C12: after buildMaps, all records that share an identity key have the same
\* final property set: the same property names with the same values (the
\* parent link, written per record afterwards, is left out of the comparison).
C12_SharedIdentitySameProperties ==
    phase = "built" =>
        \A x, y \in Range(maps.flat) :
            IdentityOf(x) = IdentityOf(y) =>
                Range(DelProp(recs[x].properties, ParentKey))
                    = Range(DelProp(recs[y].properties, ParentKey))

\* C13: with unique_depth = d passed to toSQL, every heading of depth <= d
\* yields its own row with its own generated identifier, also when another
\* heading (a sibling under the same parent included) has the same name.
C13_UniqueHeadingsOwnRows ==
    phase = "sql" =>
        LET unique == {i \in Range(maps.flat) : recs[i].depth <= out.unique_depth}
        IN  /\ Cardinality(unique)
                = Cardinality({h \in HeadingsOf(md) : md[h].depth <= out.unique_depth})
            /\ \A x, y \in unique : x # y => CellOf(x, UuidKey) # CellOf(y, UuidKey)

\* C14: a record whose depth is <= unique_depth is never merged with another
\* record and is never the target of a reference marker: no other record
\* shares its identity key and no marker value resolves to it, whatever the
\* names of the other records and of the markers (names ending in _<index>
\* included).
C14_UniqueNeverMergedNorReferenced ==
    phase = "built" =>
        \A x \in Range(maps.flat) :
            recs[x].depth <= maps.unique_depth =>
                /\ \A y \in Range(maps.flat) : y # x => IdentityOf(y) # IdentityOf(x)
                /\ \A i \in Range(maps.flat) :
                    \A k \in PropKeys(recs[i].properties) :
                        markerTest(GetProp(recs[i].properties, k)) =>
                            markerStrip(GetProp(recs[i].properties, k)) # IdentityOf(x)

\* C15: fromMD fails with a parse error naming the heading text as soon as a
\* heading line lacks its parenthesized type, wherever the line stands, and
\* then returns no MDDatabase: a document that was read up to such a line is
\* in the failed state, and a returned forest has read no such line.
Untyped(lines) == {i \in HeadingsOf(lines) : lines[i].type = None}

C15_UntypedHeadingFails ==
    /\ Untyped(md) # {} =>
            /\ phase = "failed"
            /\ Untyped(md) = {Len(md)}
            /\ err = [kind |-> "parse", name |-> md[Len(md)].name]
            /\ maps = None /\ out = None /\ ~mdcache.set
    /\ phase = "failed" => Untyped(md) # {}
    /\ phase \in {"parsed", "md"} => Untyped(md) = {}

\* the untyped heading is the fourth line, after records and a property were
\* read: the error names it and nothing is returned
C15_Witness ==
    /\ phase = "failed"
    /\ md = <<HeadingLine(1, <<"a">>, <<"t">>), PropertyLine(<<"k">>, <<"1">>),
              HeadingLine(2, <<"a">>, <<"t">>), HeadingLine(2, <<"B">>, None)>>
    /\ err = [kind |-> "parse", name |-> <<"B">>]
    /\ Len(recs) = 2

\* C16: buildMaps gives a property of a type a foreign-key column (with a
\* FOREIGN KEY constraint) exactly when all values observed for that property
\* on that type are reference markers; a property with at least one plain
\* value gets a plain typed column.
C16_ForeignKeyIffAllMarkers ==
    phase = "built" =>
        \A t \in 1..Len(maps.type_to_table) :
            LET tb == maps.type_to_table[t]
            IN  \A k \in 1..Len(tb.raw) :
                    LET column == tb.columns[ColumnOf(t, tb.raw[k].key)]
                        foreign == \E j \in 1..Len(tb.keys) :
                                        /\ tb.keys[j].kind = "FOREIGN KEY"
                                        /\ tb.keys[j].columns = <<column.field>>
                        markers == \A v \in 1..Len(tb.raw[k].vals) :
                                        markerTest(tb.raw[k].vals[v])
                    IN  /\ foreign <=> markers
                        /\ ~markers =>
                            /\ column.field = tb.key \o <<"_">> \o escape(tb.raw[k].key)
                            /\ column.type = getType(tb.raw[k].vals)

\* C17: the parent-link column is required: in every table whose primary key
\* is composite, every row toSQL prints has a non-NULL parent-link value, also
\* for a type that occurs both at the top level and as a child.
C17_ParentLinkNeverNull ==
    phase = "sql" =>
        \A t \in 1..Len(out.sql) :
            Len(out.sql[t].keys[1].columns) = 2 =>
                \A r \in 1..Len(out.sql[t].rows) :
                    out.sql[t].rows[r][ColumnOf(t, ParentKey)] # Null

\* C18: toSQL prints, for every type, exactly one row per record of that type
\* in the flattened sequence, in sequence order; in each row a column holds
\* NULL exactly when the record's resolved properties have no value for the
\* column's property, and otherwise the literal value or, for a marker, the
\* identifier of the referenced record.
RecordsOfType(type) ==
    SelectSeq(maps.flat, LAMBDA i : escape(recs[i].type) = type)

\* the first record, in flattened order, whose identity key is the marker's text
TargetOf(value) ==
    maps.flat[CHOOSE p \in 1..Len(maps.flat) :
        /\ StatedKey(p, out.unique_depth) = markerStrip(value)
        /\ \A q \in 1..(p - 1) : StatedKey(q, out.unique_depth) # markerStrip(value)]

C18_PropertyCell(i, property, cell) ==
    IF ~HasProp(recs[i].properties, property) THEN cell = Null
    ELSE LET value == GetProp(recs[i].properties, property)
         IN  IF markerTest(value) THEN cell = CellOf(TargetOf(value), UuidKey)
             ELSE /\ cell.kind \in {"number", "string"}
                  /\ cell.text = value

C18_OneRowPerRecord ==
    phase = "sql" =>
        /\ \A i \in Range(maps.flat) :
                \E t \in 1..Len(out.sql) : out.sql[t].type = escape(recs[i].type)
        /\ \A t \in 1..Len(out.sql) :
            LET records == RecordsOfType(out.sql[t].type)
                columns == maps.type_to_table[t].columns
            IN  /\ Len(out.sql[t].rows) = Len(records)
                /\ maps.type_to_table[t].insert = records
                /\ \A r \in 1..Len(records) :
                    /\ Len(out.sql[t].rows[r]) = Len(columns)
                    /\ \A c \in 1..Len(columns) :
                        IF columns[c].property = UuidKey
                        THEN out.sql[t].rows[r][c].kind = "string"
                        ELSE IF columns[c].property = ParentKey
                        THEN (out.sql[t].rows[r][c] = Null) <=> (ParentOf(records[r]) = 0)
                        ELSE C18_PropertyCell(records[r], columns[c].property,
                                              out.sql[t].rows[r][c])

\* two roots of type t kept apart by unique_depth 1: two rows in document
\* order, the second with NULL for the property only the first has
C18_Witness ==
    /\ phase = "sql"
    /\ out.unique_depth = 1
    /\ md = <<HeadingLine(1, <<"a">>, <<"t">>), PropertyLine(<<"k">>, <<"2">>),
              HeadingLine(1, <<"a">>, <<"t">>)>>
    /\ out.sql[1].rows =
        << <<[kind |-> "string", text |-> uuidText(1)], [kind |-> "number", text |-> <<"2">>]>>,
           <<[kind |-> "string", text |-> uuidText(2)], Null>> >>

\* C19: two independent runs of fromMD followed by toSQL (or toTS) on the same
\* text give outputs that are equal up to a one-to-one renaming of the
\* generated identifiers: equal once every identifier is replaced by the
\* place of its first occurrence in the output.
IsIdentifier(cell) ==
    /\ cell.kind = "string"
    /\ Len(cell.text) > 2
    /\ SubSeq(cell.text, 1, 2) = <<"u", "-">>

IdentifiersOf(sql) ==
    Concat([t \in 1..Len(sql) |->
        Concat([r \in 1..Len(sql[t].rows) |->
            SelectSeq(sql[t].rows[r], IsIdentifier)])])

FirstPlace(cells, cell) ==
    CHOOSE k \in 1..Len(cells) :
        cells[k] = cell /\ \A j \in 1..(k - 1) : cells[j] # cell

Canonical(sql) ==
    [t \in 1..Len(sql) |->
        [sql[t] EXCEPT !.rows =
            [r \in 1..Len(sql[t].rows) |->
                [c \in 1..Len(sql[t].rows[r]) |->
                    IF IsIdentifier(sql[t].rows[r][c])
                    THEN [kind |-> "identifier",
                          text |-> FirstPlace(IdentifiersOf(sql), sql[t].rows[r][c])]
                    ELSE sql[t].rows[r][c]]]]]

MergedUpTo(own, records, k) ==
    LET names == UNION {PropKeys(own[records[j]].properties) : j \in 1..k}
        latest(p) == CHOOSE j \in 1..k :
                        /\ HasProp(own[records[j]].properties, p)
                        /\ \A i \in (j + 1)..k : ~HasProp(own[records[i]].properties, p)
    IN  {<<p, GetProp(own[records[latest(p)]].properties, p)>> : p \in names}

IdentifierPair(after, records) ==
    <<UuidKey, GetProp(after[records[1]].properties, UuidKey)>>

\* C20 (as stated): the k-th record of an identity key ends with exactly the
\* generated identifier and the merged own properties of the 1st..k-th records.
C20_MergedBagExactly ==
    [][(phase = "parsed" /\ phase' = "built") =>
        \A e \in 1..Len(maps'.name_to_record) :
            LET records == maps'.name_to_record[e].records
            IN  \A k \in 1..Len(records) :
                    Range(recs'[records[k]].properties)
                        = {IdentifierPair(recs', records)} \cup MergedUpTo(recs, records, k)]_vars

\* C20 (amended): the same, and a record that has a parent also ends with the
\* _parent property, which holds the generated identifier of its parent.
C20_MergedBagAndParentLink ==
    [][(phase = "parsed" /\ phase' = "built") =>
        \A e \in 1..Len(maps'.name_to_record) :
            LET records == maps'.name_to_record[e].records
            IN  \A k \in 1..Len(records) :
                    Range(recs'[records[k]].properties)
                        = {IdentifierPair(recs', records)}
                          \cup MergedUpTo(recs, records, k)
                          \cup (IF recs'[records[k]].parent = 0 THEN {}
                                ELSE {<<ParentKey,
                                        GetProp(recs'[recs'[records[k]].parent].properties,
                                                UuidKey)>>})]_vars

\* a root and its child share the identity "a": the root keeps k = 1, the
\* child ends with the later k = 2 and the link to the root
C20_Witness ==
    /\ phase = "built"
    /\ maps.unique_depth = 0
    /\ md = <<HeadingLine(1, <<"a">>, <<"t">>), PropertyLine(<<"k">>, <<"1">>),
              HeadingLine(2, <<"a">>, <<"t">>), PropertyLine(<<"k">>, <<"2">>)>>
    /\ maps.name_to_record[1].records = <<1, 2>>
    /\ Range(recs[1].properties) = {<<UuidKey, uuidText(1)>>, <<<<"k">>, <<"1">>>>}
    /\ Range(recs[2].properties) = {<<UuidKey, uuidText(1)>>, <<<<"k">>, <<"2">>>>,
                                    <<ParentKey, uuidText(1)>>}

\* the records of the forest: the roots and everything below them
RECURSIVE Subtree(_, _)
Subtree(rs, S) ==
    LET T == S \cup UNION {Range(rs[i].children) : i \in S}
    IN  IF T = S THEN S ELSE Subtree(rs, T)

PlaceIn(flat, i) == CHOOSE k \in 1..Len(flat) : flat[k] = i

\* C21: flatten returns the records of the forest in preorder: every record of
\* the forest appears exactly once, every parent appears earlier than each of
\* its children (a child and all below it before the parent's next child), and
\* every non-root record's parent back-reference is the record whose children
\* list contains it.
C21_FlattenPreorder ==
    phase = "built" =>
        LET flat == maps.flat
            forest == Subtree(recs, Range(feed))
        IN  /\ Range(flat) = forest
            /\ Len(flat) = Cardinality(forest)
            /\ \A p \in forest :
                \A k \in 1..Len(recs[p].children) :
                    LET c == recs[p].children[k]
                    IN  /\ PlaceIn(flat, p) < PlaceIn(flat, c)
                        /\ recs[c].parent = p
                        /\ \A j \in (k + 1)..Len(recs[p].children) :
                            \A x \in Subtree(recs, {c}) :
                                PlaceIn(flat, x) < PlaceIn(flat, recs[p].children[j])
            /\ \A k \in 1..Len(feed) :
                /\ recs[feed[k]].parent = 0
                /\ \A j \in (k + 1)..Len(feed) :
                    \A x \in Subtree(recs, {feed[k]}) :
                        PlaceIn(flat, x) < PlaceIn(flat, feed[j])

\* C21 witness: # a, ## b, ### a, ## a flattened: the grandchild comes before
\* the second child.
C21_Witness ==
    /\ phase = "built"
    /\ Len(feed) = 1
    /\ Len(recs[feed[1]].children) = 2
    /\ Len(recs[recs[feed[1]].children[1]].children) = 1
    /\ Len(maps.flat) = 4

\* the marker values held by the records of the flattened sequence
MarkersOf(rs, flat) ==
    {pair[2] : pair \in {pair \in UNION {Range(rs[i].properties) : i \in Range(flat)} :
                            markerTest(pair[2])}}

IdentityKeys == {maps.name_to_record[k].key : k \in 1..Len(maps.name_to_record)}

\* C22: buildMaps, toSQL and toTS fail with a reference error whenever a record
\* has a property whose value is a marker with no matching identity key, also
\* when that marker is not the first of its column: a call that returned met
\* no such marker.
C22_UnresolvedMarkerAlwaysFails ==
    phase \in {"built", "sql", "ts"} =>
        \A value \in MarkersOf(recs, maps.flat) : markerStrip(value) \in IdentityKeys

\* C23: when toSQL or toTS fails with a reference error, no record keeps a
\* parent back-reference, a generated uuid property or a _parent property.
C23_FailedCallLeavesNoTransient ==
    (phase = "threw" /\ err.kind = "reference") =>
        \A i \in 1..Len(recs) :
            /\ recs[i].parent = 0
            /\ ~HasProp(recs[i].properties, UuidKey)
            /\ ~HasProp(recs[i].properties, ParentKey)

\* the root created by the most recent depth-1 heading read before record i
\* was created (records are numbered in the order their headings are read)
RecentRoot(i) ==
    CHOOSE f \in Range(feed) : f < i /\ \A g \in Range(feed) : g < i => g <= f

\* C24: in the forest fromMD returns, every record made by a heading of depth
\* greater than 1 is a descendant of the root made by the most recent depth-1
\* heading before it; nothing is attached into the subtree of an earlier root.
C24_UnderMostRecentRoot ==
    phase \in {"parsed", "md"} =>
        \A i \in Subtree(recs, Range(feed)) :
            recs[i].depth > 1 => i \in Subtree(recs, {RecentRoot(i)})

\* the text toMD builds when it is first called on these records
MdText(rs, roots) == Concat([k \in 1..Len(roots) |-> mdFlatten(rs, roots[k])])

\* C25: a successful toSQL or toTS leaves every record's properties exactly as
\* they were before the call (same names, same values), so toMD prints the
\* same text before and after.
C25_PropertiesUntouched ==
    [][(phase = "parsed" /\ phase' \in {"sql", "ts"}) =>
        /\ \A i \in 1..Len(recs) :
            Range(recs'[i].properties) = Range(recs[i].properties)
        /\ MdText(recs', feed') = MdText(recs, feed)]_vars

\* the tables, columns and inferred column types of one buildMaps result
SchemaOf(m) ==
    [t \in 1..Len(m.type_to_table) |->
        [type |-> m.type_to_table[t].key,
         columns |-> [c \in 1..Len(m.type_to_table[t].columns) |->
                        [field |-> m.type_to_table[t].columns[c].field,
                         type |-> m.type_to_table[t].columns[c].type]]]]

\* C26: schema synthesis is repeatable on one instance: a second successful
\* toSQL or toTS call yields the same tables, columns and inferred column types
\* as the first, and the same row values up to renaming of identifiers.
C26_SecondCallSameSchema ==
    (replay # None /\ phase \in {"sql", "ts"}) =>
        /\ SchemaOf(maps) = SchemaOf(replay.maps)
        /\ ("sql" \in DOMAIN out /\ "sql" \in DOMAIN replay.out) =>
                Canonical(out.sql) = Canonical(replay.out.sql)

\* the primary-key tuple of row r of table t: the parent link of a type with
\* parent, and the own uuid
KeyTuple(t, r) ==
    LET columns == maps.type_to_table[t].columns
        places == {c \in 1..Len(columns) : columns[c].property \in {ParentKey, UuidKey}}
    IN  [c \in places |-> out.sql[t].rows[r][c]]

\* C27: in the output of toSQL, no two rows of a table have the same
\* primary-key tuple.
C27_PrimaryKeyUnique ==
    phase = "sql" =>
        \A t \in 1..Len(out.sql) :
            \A r1, r2 \in 1..Len(out.sql[t].rows) :
                r1 # r2 => KeyTuple(t, r1) # KeyTuple(t, r2)

\* the table named by the FOREIGN KEY clause of table t on the given column
ReferencedBy(t, field) ==
    LET key == CHOOSE key \in Range(out.sql[t].keys) :
                    key.kind = "FOREIGN KEY" /\ key.columns = <<field>>
    IN  {u \in 1..Len(out.sql) : out.sql[u].table = key.table}

\* the uuid cells of the rows of the given tables
UuidsIn(tables) ==
    UNION {{out.sql[u].rows[r][c] : r \in 1..Len(out.sql[u].rows),
                c \in {c \in 1..Len(maps.type_to_table[u].columns) :
                            maps.type_to_table[u].columns[c].property = UuidKey}}
           : u \in tables}

\* C28: in the output of toSQL, every parent link that is not NULL is the uuid
\* of a row of the table the column's FOREIGN KEY clause references.
C28_ParentLinkInReferencedTable ==
    phase = "sql" =>
        \A t \in 1..Len(out.sql) :
            \A c \in 1..Len(maps.type_to_table[t].columns) :
                maps.type_to_table[t].columns[c].property = ParentKey =>
                    \A r \in 1..Len(out.sql[t].rows) :
                        out.sql[t].rows[r][c] # Null =>
                            out.sql[t].rows[r][c] \in
                                UuidsIn(ReferencedBy(t, out.sql[t].columns[c].field))

\* C29: in the output of toSQL, every value printed for a marker in a reference
\* column is the uuid of a row of the table the column's FOREIGN KEY clause
\* references.
C29_MarkerInReferencedTable ==
    phase = "sql" =>
        \A t \in 1..Len(out.sql) :
            \A c \in 1..Len(maps.type_to_table[t].columns) :
                \A r \in 1..Len(out.sql[t].rows) :
                    LET column == maps.type_to_table[t].columns[c]
                        record == recs[maps.type_to_table[t].insert[r]]
                    IN  (/\ column.property \notin {ParentKey, UuidKey}
                         /\ HasProp(record.properties, column.property)
                         /\ markerTest(GetProp(record.properties, column.property))) =>
                            out.sql[t].rows[r][c] \in
                                UuidsIn(ReferencedBy(t, out.sql[t].columns[c].field))

\* C30: in every table buildMaps synthesizes, each column named in the PRIMARY
\* KEY clause and in each FOREIGN KEY clause is the field name of a column of
\* that table.
C30_KeyColumnsAreFields ==
    phase = "built" =>
        \A t \in 1..Len(maps.type_to_table) :
            LET table == maps.type_to_table[t]
                fields == {table.columns[c].field : c \in 1..Len(table.columns)}
            IN  \A k \in 1..Len(table.keys) :
                    Range(table.keys[k].columns) \subseteq fields

==============================================================================
